---- MODULE Spec2Model ----
(***************************************************************************)
(* A model of ietf/sync/rfceditor.py: the RFC Editor feed parsers, the     *)
(* queue reconciler (update_drafts_from_queue), the index reconciler       *)
(* (update_docs_from_rfc_index) and the notifier (post_approved_draft).    *)
(*                                                                         *)
(* Identifiers and document names are sequences of one-character strings,  *)
(* so that slicing, lower-casing, int() and "%04d" act on characters.      *)
(* Messages that are only built and compared are TLA+ strings.             *)
(***************************************************************************)
EXTENDS Integers, Sequences, FiniteSets, TLC

VARIABLES feed, parsed, qfeed, qparsed, nreq, nres, db, qin, qout, iin, iout, runs

vars == <<feed, parsed, qfeed, qparsed, nreq, nres, db, qin, qout, iin, iout, runs>>

parseVars == <<feed, parsed, qfeed, qparsed>>
notifyVars == <<nreq, nres>>
storeVars == <<db, qin, qout, iin, iout, runs>>

(***************************************************************************)
(* Character-level string operations.                                      *)
(***************************************************************************)
DigitChars == <<"0", "1", "2", "3", "4", "5", "6", "7", "8", "9">>

UpperChars == <<"A", "B", "C", "D", "E", "F", "G", "H", "I", "J", "K", "L", "M",
                "N", "O", "P", "Q", "R", "S", "T", "U", "V", "W", "X", "Y", "Z">>

LowerChars == <<"a", "b", "c", "d", "e", "f", "g", "h", "i", "j", "k", "l", "m",
                "n", "o", "p", "q", "r", "s", "t", "u", "v", "w", "x", "y", "z">>

IsDigit(c) == \E i \in 1..10 : DigitChars[i] = c

DigitVal(c) == (CHOOSE i \in 1..10 : DigitChars[i] = c) - 1

\* str.lower() on one character.
LowerChar(c) ==
    IF \E i \in 1..26 : UpperChars[i] = c
    THEN LowerChars[CHOOSE i \in 1..26 : UpperChars[i] = c]
    ELSE c

\* str.lower()
Lower(s) == [i \in 1..Len(s) |-> LowerChar(s[i])]

\* s[:n]
Take(s, n) == SubSeq(s, 1, IF n < Len(s) THEN n ELSE Len(s))

\* s[n:]
Drop(s, n) == SubSeq(s, n + 1, Len(s))

\* int(s) for a string of decimal digits; -1 stands for ValueError.
RECURSIVE DigitsValue(_)
DigitsValue(s) ==
    IF s = <<>> THEN 0
    ELSE 10 * DigitsValue(SubSeq(s, 1, Len(s) - 1)) + DigitVal(s[Len(s)])

ParseInt(s) ==
    IF s # <<>> /\ \A i \in 1..Len(s) : IsDigit(s[i]) THEN DigitsValue(s) ELSE -1

\* str(n) for n >= 0
RECURSIVE IntStr(_)
IntStr(n) ==
    IF n < 10 THEN <<DigitChars[n + 1]>>
    ELSE IntStr(n \div 10) \o <<DigitChars[(n % 10) + 1]>>

\* "%04d" % n
RECURSIVE ZeroPad(_, _)
ZeroPad(s, w) == IF Len(s) >= w THEN s ELSE ZeroPad(<<"0">> \o s, w)

Fmt04d(n) == ZeroPad(IntStr(n), 4)

\* The elements of a sequence.
Range(s) == {s[i] : i \in 1..Len(s)}

\* The sequences over S of length at most n.
SeqsUpTo(S, n) == UNION {[1..k -> S] : k \in 0..n}

(***************************************************************************)
(* parse_queue: the annotations decoded from the state text of an entry.   *)
(***************************************************************************)
mR == <<"*", "R">>
mA == <<"*", "A">>

\* m in s
Contains(s, m) ==
    \E i \in 1..(Len(s) - Len(m) + 1) : SubSeq(s, i, i + Len(m) - 1) = m

\* s.replace(m, ""): the occurrences found in one scan from the left.
RECURSIVE Replace(_, _)
Replace(s, m) ==
    IF Len(s) < Len(m) THEN s
    ELSE IF SubSeq(s, 1, Len(m)) = m THEN Replace(Drop(s, Len(m)), m)
    ELSE <<Head(s)>> \o Replace(Tail(s), m)

\* The places where r"\(([0-9]+)G\)" matches: i is the "(", j the last digit.
MissrefMatches(s) ==
    {p \in (1..Len(s)) \X (1..Len(s)) :
        /\ p[1] < p[2] /\ p[2] + 2 <= Len(s)
        /\ s[p[1]] = "("
        /\ \A k \in (p[1] + 1)..p[2] : IsDigit(s[k])
        /\ s[p[2] + 1] = "G" /\ s[p[2] + 2] = ")"}

\* Lines 77-80: the generation of the first match, taken out of the state.
StripMissref(state) ==
    IF MissrefMatches(state) = {} THEN [state |-> state, missref_generation |-> <<>>]
    ELSE LET p == CHOOSE p \in MissrefMatches(state) :
                     \A q \in MissrefMatches(state) : p[1] <= q[1]
             g == SubSeq(state, p[1] + 1, p[2])
         IN  [state |-> Replace(state, <<"(">> \o g \o <<"G", ")">>),
              missref_generation |-> g]

\* Lines 71-76 with the state after them.
StripMarkers(state) ==
    LET s1 == IF Contains(state, mR) THEN Replace(state, mR) ELSE state
    IN  [tags |-> (IF Contains(state, mR) THEN <<"ref">> ELSE <<>>)
                  \o (IF Contains(s1, mA) THEN <<"iana">> ELSE <<>>),
         state |-> IF Contains(s1, mA) THEN Replace(s1, mA) ELSE s1]

\* Lines 63-80 for an entry with one state element.
parse_queue_state(text) ==
    [done |-> TRUE,
     tags |-> StripMarkers(text).tags,
     state |-> StripMissref(StripMarkers(text).state).state,
     missref_generation |-> StripMissref(StripMarkers(text).state).missref_generation]

MaxPieces == 4

\* What a state text is put together from.
Pieces == {<<"*">>, <<"R">>, <<"A">>, mR, mA, <<"(", "1", "G", ")">>,
           <<"E", "D", "I", "T">>}

\* The pieces of a list joined.
RECURSIVE Join(_)
Join(l) == IF l = <<>> THEN <<>> ELSE Head(l) \o Join(Tail(l))

StateTexts == {Join(l) : l \in SeqsUpTo(Pieces, MaxPieces)}

NoQueueParse ==
    [done |-> FALSE, tags |-> <<>>, state |-> <<>>, missref_generation |-> <<>>]

\* parse_queue has not been used.
QueueParseIdle == qfeed = <<>> /\ qparsed = NoQueueParse

InitParseQueue ==
    /\ qfeed \in StateTexts
    /\ qparsed = NoQueueParse

ParseQueue ==
    /\ ~qparsed.done
    /\ qparsed' = parse_queue_state(qfeed)
    /\ UNCHANGED qfeed

(***************************************************************************)
(* parse_index                                                             *)
(***************************************************************************)
sRFC == <<"R", "F", "C">>
sFYI == <<"F", "Y", "I">>
sBCP == <<"B", "C", "P">>
sSTD == <<"S", "T", "D">>

\* normalize_std_name as the source has it.
normalize_std_name(std_name) ==
    LET prefix == Take(std_name, 3)
        n == ParseInt(Drop(std_name, 3))
    IN  IF prefix \in {sRFC, sFYI, sBCP, sSTD} /\ n # -1
        THEN prefix \o IntStr(n)
        ELSE std_name

\* extract_doc_list: the normalized doc-ids below the elements of one tag.
extract_doc_list(ids) == [i \in 1..Len(ids) |-> normalize_std_name(ids[i])]

\* One is-also doc-id added to the also_list dictionary.
AlsoAdd(also_list, docid, bcpid) ==
    IF docid \in DOMAIN also_list
    THEN [also_list EXCEPT ![docid] = Append(@, bcpid)]
    ELSE [k \in DOMAIN also_list \cup {docid} |->
            IF k = docid THEN <<bcpid>> ELSE also_list[k]]

RECURSIVE AlsoAddAll(_, _, _)
AlsoAddAll(also_list, doclist, bcpid) ==
    IF doclist = <<>> THEN also_list
    ELSE AlsoAddAll(AlsoAdd(also_list, Head(doclist), bcpid), Tail(doclist), bcpid)

\* re.search(r"-\d\d$", draft)
HasRevSuffix(draft) ==
    /\ Len(draft) >= 3
    /\ draft[Len(draft) - 2] = "-"
    /\ IsDigit(draft[Len(draft) - 1])
    /\ IsDigit(draft[Len(draft)])

\* The tuple parse_index appends for one rfc-entry (the fields that are
\* converted; title, authors, date, status, stream, pages and abstract are
\* copied from the node's text).
RfcEntryTuple(node) ==
    [rfc_number |-> ParseInt(Drop(node.docid, 3)),
     obsoletes  |-> extract_doc_list(node.obsoletes),
     also       |-> <<>>,
     draft      |-> IF node.draft # <<>> /\ HasRevSuffix(node.draft)
                    THEN SubSeq(node.draft, 1, Len(node.draft) - 3)
                    ELSE node.draft,
     has_errata |-> IF node.errata_urls > 0 THEN 1 ELSE 0]

\* The event loop of parse_index over the nodes of the feed.
RECURSIVE ParseLoop(_, _, _)
ParseLoop(nodes, also_list, data) ==
    IF nodes = <<>> THEN [also_list |-> also_list, data |-> data]
    ELSE LET node == Head(nodes)
         IN  IF node.tag \in {"bcp-entry", "fyi-entry", "std-entry"}
             THEN ParseLoop(Tail(nodes),
                            AlsoAddAll(also_list, extract_doc_list(node.isalso),
                                       normalize_std_name(node.docid)),
                            data)
             ELSE IF node.tag = "rfc-entry"
             THEN ParseLoop(Tail(nodes), also_list, Append(data, RfcEntryTuple(node)))
             ELSE ParseLoop(Tail(nodes), also_list, data)

\* The key under which the final pass of parse_index looks an entry up.
AlsoKey(rfc_number) == sRFC \o Fmt04d(rfc_number)

\* parse_index: the loop, then the pass that fills also.
parse_index(nodes) ==
    LET r == ParseLoop(nodes, <<>>, <<>>)
    IN  [i \in 1..Len(r.data) |->
            LET k == AlsoKey(r.data[i].rfc_number)
            IN  IF k \in DOMAIN r.also_list
                THEN [r.data[i] EXCEPT !.also = @ \o r.also_list[k]]
                ELSE r.data[i]]

(***************************************************************************)
(* The feeds the parser is run on.                                         *)
(***************************************************************************)
MaxNodes == 2

idRFC0020 == <<"R", "F", "C", "0", "0", "2", "0">>
idRFC1000 == <<"R", "F", "C", "1", "0", "0", "0">>
idSTD0001 == <<"S", "T", "D", "0", "0", "0", "1">>
idBCP0009 == <<"B", "C", "P", "0", "0", "0", "9">>
draftA03 == <<"d", "-", "a", "-", "0", "3">>

SecondaryNodes ==
    {[tag |-> t[1], docid |-> t[2], isalso |-> a, obsoletes |-> <<>>,
      draft |-> <<>>, errata_urls |-> 0] :
        t \in {<<"bcp-entry", idBCP0009>>, <<"std-entry", idSTD0001>>},
        a \in {<<>>, <<idRFC0020>>, <<idRFC1000>>, <<idRFC0020, idRFC1000>>}}

RfcNodes ==
    {[tag |-> "rfc-entry", docid |-> d, isalso |-> <<>>, obsoletes |-> o,
      draft |-> dr, errata_urls |-> u] :
        d \in {idRFC0020, idRFC1000}, o \in {<<>>, <<idRFC0020>>},
        dr \in {<<>>, draftA03}, u \in {0, 1}}

FeedNodes == SecondaryNodes \cup RfcNodes

InitParse ==
    /\ feed \in SeqsUpTo(FeedNodes, MaxNodes)
    /\ parsed = [done |-> FALSE, data |-> <<>>]

ParseIndex ==
    /\ ~parsed.done
    /\ parsed' = [done |-> TRUE, data |-> parse_index(feed)]
    /\ UNCHANGED <<feed, qfeed, qparsed>>

(***************************************************************************)
(* post_approved_draft                                                     *)
(***************************************************************************)
StatusText == [s \in {200, 404, 500} |-> CASE s = 200 -> "200"
                                           [] s = 404 -> "404"
                                           [] s = 500 -> "500"]

\* What requests.post does: it raises (msg is the text of the exception) or
\* it gives a response.
Outcomes ==
    {[raised |-> TRUE, msg |-> m, status |-> 0, body |-> ""] :
        m \in {"", "Connection timed out"}}
    \cup
    {[raised |-> FALSE, msg |-> "", status |-> s, body |-> b] :
        s \in DOMAIN StatusText, b \in {"OK", "FAIL", "", "OK\n"}}

\* The exception that reaches the except clause, if one does, and str(e).
NotifyException(o) ==
    IF o.raised THEN [caught |-> TRUE, str |-> o.msg]
    ELSE IF o.status # 200
    THEN [caught |-> TRUE,
          str |-> "Status code is not 200 OK (it's " \o StatusText[o.status] \o ")."]
    ELSE IF o.body # "OK"
    THEN [caught |-> TRUE,
          str |-> "Response is not \"OK\" (it's \"" \o o.body \o "\")."]
    ELSE [caught |-> FALSE, str |-> ""]

\* The pair post_approved_draft returns: text and error start as "" and only
\* error is assigned again, in the except clause.
post_approved_draft(o) ==
    LET e == NotifyException(o)
    IN  [text |-> "", error |-> IF e.caught THEN e.str ELSE ""]

Urls == {"https://rfc-editor.example/a", "https://rfc-editor.example/b"}
NotifyNames == {"draft-a", "draft-b", "draft-c", "draft-d"}

NoOutcome == [raised |-> FALSE, msg |-> "", status |-> 0, body |-> ""]

InitNotify ==
    /\ nreq = [called |-> FALSE, url |-> "", name |-> "", outcome |-> NoOutcome]
    /\ nres = [text |-> "", error |-> ""]

\* The parsers have not been used.
ParseIdle == feed = <<>> /\ parsed = [done |-> FALSE, data |-> <<>>] /\ QueueParseIdle

PostApprovedDraft ==
    \E url \in Urls, name \in NotifyNames, o \in Outcomes :
        /\ nreq' = [called |-> TRUE, url |-> url, name |-> name, outcome |-> o]
        /\ nres' = post_approved_draft(o)

(***************************************************************************)
(* The document store: Document rows by name, DocAlias rows (alias name to *)
(* the name of its document), RelatedDocument rows counted per             *)
(* (source, target alias, relationship).                                   *)
(***************************************************************************)
NoState == "<none>"
NoName == "<none>"
NoUrl == "<none>"
NoPages == -1

StateTypes == {"draft", "draft-iesg", "draft-rfceditor",
               "draft-stream-iab", "draft-stream-irtf", "draft-stream-ise"}

\* A Document row as Document.objects.create(name=..., type=draft) makes it,
\* with the events, mails and DocumentURL that hang off it.
\*   received:  the number of "rfc_editor_received_announcement" events
\*   mails:     the number of mails sent about the document
\*   published: the times of its "published_rfc" events, oldest first
\*   auth48:    the url of its DocumentURL with tag auth48
NewDocument ==
    [title |-> "", abstract |-> "", pages |-> NoPages,
     std_level |-> NoName, stream |-> NoName, group |-> NoName,
     state |-> [t \in StateTypes |-> NoState],
     tags |-> {}, received |-> 0, mails |-> 0, published |-> <<>>,
     auth48 |-> NoUrl]

\* A function extended or overwritten at one key.
Put(f, k, v) == [x \in DOMAIN f \cup {k} |-> IF x = k THEN v ELSE f[x]]

\* The names of the aliases of a document.
AliasesOf(store, doc) == {a \in DOMAIN store.alias : store.alias[a] = doc}

(***************************************************************************)
(* update_drafts_from_queue                                                *)
(***************************************************************************)
tag_mapping == [IANA |-> "iana", REF |-> "ref"]

state_mapping ==
    [c \in {"AUTH", "AUTH48", "AUTH48-DONE", "EDIT", "IANA", "IESG", "ISR",
            "ISR-AUTH", "REF", "RFC-EDITOR", "TI", "TO", "MISSREF"} |->
        CASE c = "AUTH" -> "auth"
          [] c = "AUTH48" -> "auth48"
          [] c = "AUTH48-DONE" -> "auth48-done"
          [] c = "EDIT" -> "edit"
          [] c = "IANA" -> "iana"
          [] c = "IESG" -> "iesg"
          [] c = "ISR" -> "isr"
          [] c = "ISR-AUTH" -> "isr-auth"
          [] c = "REF" -> "ref"
          [] c = "RFC-EDITOR" -> "rfc-edit"
          [] c = "TI" -> "tooling-issue"
          [] c = "TO" -> "timeout"
          [] c = "MISSREF" -> "missref"]

\* The slugs of the DocTagName table.
TagSlugs == {"iana", "ref", "need-rev", "errata", "verified-errata"}

\* names = [t[0] for t in drafts]
QueueNames(drafts) == {drafts[i].name : i \in 1..Len(drafts)}

\* Document.objects.filter(type="draft", docalias__name__in=names), keyed by name.
drafts_in_db(store, names) ==
    {d \in DOMAIN store.docs : AliasesOf(store, d) \cap names # {}}

\* A DocEvent created during a run.
Event(doc, type, what) == [doc |-> doc, type |-> type, what |-> what]

\* FirstContact without the look for an earlier event.
FirstContactNoEventCheck(d) ==
    /\ d.state["draft-iesg"] = "ann"
    /\ d.state["draft-rfceditor"] = NoState

\* Lines 178-196: the announcement has been received.
FirstContact(d) ==
    /\ d.state["draft-iesg"] = "ann"
    /\ d.state["draft-rfceditor"] = NoState
    /\ d.received = 0

\* QueueTags that sets the tags without comparing them.
QueueTagsAlways(d, tags) == [changed |-> TRUE, tags |-> Range(tags) \cap TagSlugs]

\* Lines 220-224: the tags of the entry against the tags of the document.
QueueTags(d, tags) ==
    LET t == Range(tags) \cap TagSlugs
    IN  IF t # d.tags THEN [changed |-> TRUE, tags |-> t]
        ELSE [changed |-> FALSE, tags |-> d.tags]

\* StateChange that does not compare the states.
StateChangeAlways(d, next_state, auth48) ==
    [d EXCEPT !.state["draft-rfceditor"] = next_state,
              !.auth48 = IF auth48 # "" THEN auth48 ELSE NoUrl]

\* Lines 199-218: on a change of the draft-rfceditor state the state is set
\* and the auth48 url record is created or updated from the entry's url, or
\* deleted when the entry has none.
StateChange(d, next_state, auth48) ==
    IF d.state["draft-rfceditor"] # next_state
    THEN [d EXCEPT !.state["draft-rfceditor"] = next_state,
                   !.auth48 = IF auth48 # "" THEN auth48 ELSE NoUrl]
    ELSE d

\* The body of the loop over the queue for one entry (lines 162-227).
\* s: [db, changed, warnings, events]; known: the keys of drafts_in_db.
QueueEntry(s, known, e) ==
    IF e.name \notin known
    THEN [s EXCEPT !.warnings =
            Append(@, [kind |-> "unknown document", state |-> "", name |-> e.name])]
    ELSE IF e.state = "" \/ e.state \notin DOMAIN state_mapping
    THEN [s EXCEPT !.warnings =
            Append(@, [kind |-> "unknown state", state |-> e.state, name |-> e.name])]
    ELSE
    LET d == s.db.docs[e.name]
        prev_state == d.state["draft-rfceditor"]
        next_state == state_mapping[e.state]
        first == FirstContact(d)
        d1 == IF first
              THEN [d EXCEPT !.received = @ + 1, !.mails = @ + 1,
                             !.state["draft-iesg"] = "rfcqueue"]
              ELSE d
        ev1 == IF first
               THEN <<Event(e.name, "rfc_editor_received_announcement", ""),
                      Event(e.name, "changed_state", "draft-iesg")>>
               ELSE <<>>
        moved == prev_state # next_state
        d2 == StateChange(d1, next_state, e.auth48)
        ev2 == IF moved THEN <<Event(e.name, "changed_state", "draft-rfceditor")>>
               ELSE <<>>
        t == QueueTags(d2, e.tags)
        d3 == [d2 EXCEPT !.tags = t.tags]
    IN  [db |-> [s.db EXCEPT !.docs[e.name] = d3],
         changed |-> IF first \/ moved \/ t.changed
                     THEN s.changed \cup {e.name} ELSE s.changed,
         warnings |-> s.warnings,
         events |-> s.events \o ev1 \o ev2]

RECURSIVE QueueLoop(_, _, _)
QueueLoop(s, known, drafts) ==
    IF drafts = <<>> THEN s
    ELSE QueueLoop(QueueEntry(s, known, Head(drafts)), known, Tail(drafts))

\* NotInQueue without the exclusion of the names in the queue.
NotInQueueNoExclude(store, names) ==
    {d \in DOMAIN store.docs : store.docs[d].state["draft-rfceditor"] # NoState}

\* Document.objects.exclude(docalias__name__in=names)
\*                 .filter(states__type="draft-rfceditor")
NotInQueue(store, names) ==
    {d \in DOMAIN store.docs :
        /\ AliasesOf(store, d) \cap names = {}
        /\ store.docs[d].state["draft-rfceditor"] # NoState}

\* The name line 236 adds for the document d: the variable it reads is the
\* one the loop over the queue has left, the name of the last entry.
CleanupName(drafts, d) == drafts[Len(drafts)].name

\* The loop of lines 231-236 over the documents in the order the query gives
\* them. With an empty queue the variable read at line 236 is unbound: the
\* first document is cleared and the call raises.
RECURSIVE CleanupLoop(_, _, _)
CleanupLoop(s, drafts, order) ==
    IF order = <<>> THEN s
    ELSE LET d == Head(order)
             cleared == [s.db EXCEPT
                            !.docs[d].tags = @ \ {tag_mapping.IANA, tag_mapping.REF},
                            !.docs[d].state["draft-rfceditor"] = NoState]
         IN  IF drafts = <<>>
             THEN [s EXCEPT !.db = cleared, !.raised = TRUE]
             ELSE CleanupLoop([s EXCEPT !.db = cleared,
                                        !.changed = @ \cup {CleanupName(drafts, d)}],
                              drafts, Tail(order))

\* update_drafts_from_queue(drafts); order is the order in which the last
\* query yields its documents.
update_drafts_from_queue(store, drafts, order) ==
    LET names == QueueNames(drafts)
        s0 == [db |-> store, changed |-> {}, warnings |-> <<>>, events |-> <<>>]
        s1 == QueueLoop(s0, drafts_in_db(store, names), drafts)
    IN  CleanupLoop([db |-> s1.db, changed |-> s1.changed, warnings |-> s1.warnings,
                     events |-> s1.events, raised |-> FALSE],
                    drafts, order)

\* The orders in which a set can be listed.
Orders(S) == {o \in [1..Cardinality(S) -> S] : Range(o) = S}

(***************************************************************************)
(* The queue reconciler run against a store, with the state changes that   *)
(* other parts of the tracker make between runs.                           *)
(***************************************************************************)
MaxQueue == 2
MaxRuns == 2
MaxEvents == 2

dA == <<"d", "-", "a">>
dB == <<"d", "-", "b">>
dX == <<"d", "-", "x">>

Auth48Url == "https://www.rfc-editor.org/auth48/a"

\* The feed gives an AUTH48 url for the drafts that are in AUTH48.
QueueEntries ==
    {[name |-> dA, state |-> st, tags |-> tg,
      auth48 |-> IF st = "AUTH48" THEN Auth48Url ELSE ""] :
        st \in {"EDIT", "AUTH48", "BOGUS"},
        tg \in {<<>>, <<"ref", "iana">>}}
    \cup {[name |-> dA, state |-> "", tags |-> <<>>, auth48 |-> ""],
          [name |-> dB, state |-> "EDIT", tags |-> <<"iana">>, auth48 |-> ""],
          [name |-> dX, state |-> "EDIT", tags |-> <<>>, auth48 |-> ""]}

\* The parsed queues: each draft is listed once.
Queues ==
    {q \in SeqsUpTo(QueueEntries, MaxQueue) :
        \A i, j \in 1..Len(q) : q[i].name = q[j].name => i = j}

NoQueueCall == [called |-> FALSE, drafts |-> <<>>]
NoQueueResult == [changed |-> {}, warnings |-> <<>>, events |-> <<>>, raised |-> FALSE]
NoIndexCall ==
    [called |-> FALSE, index_data |-> <<>>, errata_data |-> <<>>,
     now |-> [year |-> 0, month |-> 0, day |-> 0, tod |-> 0]]
NoIndexResult ==
    [yielded |-> <<>>, events |-> <<>>, raised |-> FALSE,
     reversed |-> [db |-> <<>>, yielded |-> <<>>, raised |-> FALSE]]

\* An approved draft that has been announced, and one that may already be
\* in the RFC Editor's queue.
QueueStores ==
    {[docs |-> (dA :> [NewDocument EXCEPT
                          !.state["draft"] = "active",
                          !.state["draft-iesg"] = "ann",
                          !.tags = ta])
               @@
               (dB :> IF inq
                      THEN [NewDocument EXCEPT
                               !.state["draft"] = "active",
                               !.state["draft-iesg"] = "rfcqueue",
                               !.state["draft-rfceditor"] = "edit",
                               !.tags = {"ref", "need-rev"},
                               !.received = 1, !.mails = 1]
                      ELSE [NewDocument EXCEPT
                               !.state["draft"] = "active",
                               !.state["draft-iesg"] = "approved"]),
      alias |-> (dA :> dA) @@ (dB :> dB),
      edges |-> <<>>] :
        ta \in {{}, {"need-rev"}}, inq \in BOOLEAN}

InitStoreCommon ==
    /\ qin = NoQueueCall
    /\ qout = NoQueueResult
    /\ iin = NoIndexCall
    /\ iout = NoIndexResult
    /\ runs = 0

InitQueue ==
    /\ db \in QueueStores
    /\ InitStoreCommon
    /\ ParseIdle
    /\ InitNotify

\* The counters a run may raise have not passed their cap.
WithinCaps(store) ==
    \A d \in DOMAIN store.docs :
        /\ store.docs[d].received < MaxEvents
        /\ store.docs[d].mails < MaxEvents
        /\ Len(store.docs[d].published) < MaxEvents

\* One call of update_drafts_from_queue on a queue of Q.
RunQueueOn(Q) ==
    /\ runs < MaxRuns
    /\ WithinCaps(db)
    /\ \E drafts \in Q :
         \E order \in Orders(NotInQueue(db, QueueNames(drafts))) :
            LET r == update_drafts_from_queue(db, drafts, order)
            IN  /\ db' = r.db
                /\ qin' = [called |-> TRUE, drafts |-> drafts]
                /\ qout' = [changed |-> r.changed, warnings |-> r.warnings,
                            events |-> r.events, raised |-> r.raised]
    /\ runs' = runs + 1
    /\ UNCHANGED <<iin, iout>>

RunQueue == RunQueueOn(Queues)

\* The parsed queues in which a draft may be listed twice.
AnyQueues == SeqsUpTo(QueueEntries, MaxQueue)

\* One call of update_drafts_from_queue on any list of entries.
RunAnyQueue == RunQueueOn(AnyQueues)

\* Another part of the tracker moves the draft-iesg state of the draft.
InternalIesg ==
    /\ \E d \in {dA}, st \in {"ann", "rfcqueue"} :
         /\ db.docs[d].state["draft-iesg"] # st
         /\ db' = [db EXCEPT !.docs[d].state["draft-iesg"] = st]
    /\ qin' = NoQueueCall
    /\ qout' = NoQueueResult
    /\ UNCHANGED <<iin, iout, runs>>

\* Another part of the tracker sets or unsets the draft-rfceditor state of
\* the draft.
InternalRfcEditor ==
    /\ \E d \in {dA}, st \in {NoState, "edit"} :
         /\ db.docs[d].state["draft-rfceditor"] # st
         /\ db' = [db EXCEPT !.docs[d].state["draft-rfceditor"] = st]
    /\ qin' = NoQueueCall
    /\ qout' = NoQueueResult
    /\ UNCHANGED <<iin, iout, runs>>

NextQueue ==
    \/ RunQueue /\ UNCHANGED <<parseVars, notifyVars>>
    \/ InternalIesg /\ UNCHANGED <<parseVars, notifyVars>>
    \/ InternalRfcEditor /\ UNCHANGED <<parseVars, notifyVars>>

\* The queue reconciler and the tracker's own state changes.
SpecQueue == InitQueue /\ [][NextQueue]_vars

(***************************************************************************)
(* Dates as datetime has them. A time is a date with tod, 0 for midnight   *)
(* and 1 for a later time of that day; differences are in half days.       *)
(***************************************************************************)
IsLeap(y) == y % 4 = 0 /\ (y % 100 # 0 \/ y % 400 = 0)

DaysInMonth(y, m) ==
    IF m = 2 THEN (IF IsLeap(y) THEN 29 ELSE 28)
    ELSE IF m \in {4, 6, 9, 11} THEN 30 ELSE 31

RECURSIVE DaysBeforeMonth(_, _)
DaysBeforeMonth(y, m) ==
    IF m = 1 THEN 0 ELSE DaysBeforeMonth(y, m - 1) + DaysInMonth(y, m - 1)

\* date.toordinal()
Ordinal(t) ==
    LET y == t.year - 1
    IN  y * 365 + y \div 4 - y \div 100 + y \div 400
        + DaysBeforeMonth(t.year, t.month) + t.day

\* t + timedelta(days=1) and t + timedelta(days=-1)
NextDay(t) ==
    IF t.day < DaysInMonth(t.year, t.month) THEN [t EXCEPT !.day = @ + 1]
    ELSE IF t.month < 12 THEN [t EXCEPT !.month = @ + 1, !.day = 1]
    ELSE [t EXCEPT !.year = @ + 1, !.month = 1, !.day = 1]

PrevDay(t) ==
    IF t.day > 1 THEN [t EXCEPT !.day = @ - 1]
    ELSE IF t.month > 1
    THEN [t EXCEPT !.month = @ - 1, !.day = DaysInMonth(t.year, t.month - 1)]
    ELSE [t EXCEPT !.year = @ - 1, !.month = 12, !.day = 31]

AddDays(t, direction) == IF direction < 0 THEN PrevDay(t) ELSE NextDay(t)

\* (a - b) in half days.
HalfDays(a, b) == 2 * (Ordinal(a) - Ordinal(b)) + a.tod - b.tod

Abs(n) == IF n < 0 THEN -n ELSE n

SynthesisWindowDays == 60

\* The while loop of lines 464-465, with the number of days it has walked.
RECURSIVE WalkToMonth(_, _, _, _)
WalkToMonth(synthesized, d, direction, steps) ==
    IF synthesized.month # d.month \/ synthesized.year # d.year
    THEN WalkToMonth(AddDays(synthesized, direction), d, direction, steps + 1)
    ELSE [time |-> synthesized, steps |-> steps]

\* Synthesize that walks whatever the distance.
SynthesizeNoWindow(rfc_published_date, now) ==
    LET d == [year |-> rfc_published_date.year, month |-> rfc_published_date.month,
              day |-> 1, tod |-> 0]
    IN  WalkToMonth(now, d, IF HalfDays(d, now) < 0 THEN -1 ELSE 1, 0)

\* Lines 458-466: the time given to the published_rfc event.
Synthesize(rfc_published_date, now) ==
    LET d == [year |-> rfc_published_date.year, month |-> rfc_published_date.month,
              day |-> 1, tod |-> 0]
    IN  IF Abs(HalfDays(d, now)) > 2 * SynthesisWindowDays
        THEN [time |-> d, steps |-> 0]
        ELSE WalkToMonth(now, d, IF HalfDays(d, now) < 0 THEN -1 ELSE 1, 0)

(***************************************************************************)
(* update_docs_from_rfc_index                                              *)
(***************************************************************************)
std_level_mapping ==
    [c \in {"Standard", "Internet Standard", "Draft Standard", "Proposed Standard",
            "Informational", "Experimental", "Best Current Practice", "Historic",
            "Unknown"} |->
        CASE c = "Standard" -> "std"
          [] c = "Internet Standard" -> "std"
          [] c = "Draft Standard" -> "ds"
          [] c = "Proposed Standard" -> "ps"
          [] c = "Informational" -> "inf"
          [] c = "Experimental" -> "exp"
          [] c = "Best Current Practice" -> "bcp"
          [] c = "Historic" -> "hist"
          [] c = "Unknown" -> "unkn"]

stream_mapping ==
    [c \in {"IETF", "INDEPENDENT", "IRTF", "IAB", "Legacy"} |->
        CASE c = "IETF" -> "ietf"
          [] c = "INDEPENDENT" -> "ise"
          [] c = "IRTF" -> "irtf"
          [] c = "IAB" -> "iab"
          [] c = "Legacy" -> "legacy"]

\* The acronyms of the Group table; "none" is the group of type individ.
GroupAcronyms == {"none", "httpbis"}

\* A change description: what was done, with the text or the name it names.
Note(kind, text, name) == [kind |-> kind, text |-> text, name |-> name]

\* The errata dictionary of lines 343-348 at one key.
ErrataFor(errata_data, key) ==
    SelectSeq(errata_data, LAMBDA item : item.doc_id = key)

\* The key of line 520.
ErrataKey(rfc_number) == sRFC \o Fmt04d(rfc_number)

\* "rfc%s" % rfc_number
RfcName(rfc_number) == <<"r", "f", "c">> \o IntStr(rfc_number)

\* A set listed in some order.
RECURSIVE SetToSeq(_)
SetToSeq(S) ==
    IF S = {} THEN <<>>
    ELSE LET x == CHOOSE x \in S : TRUE IN <<x>> \o SetToSeq(S \ {x})

\* The aliases one identifier of a relation list stands for (lines 491-496).
RelationAliases(store, x) ==
    IF Take(x, 3) \in {<<"N", "I", "C">>, <<"I", "E", "N">>, sSTD, <<"R", "T", "R">>}
    THEN {a \in DOMAIN store.alias :
            /\ Take(a, 3) = <<"r", "f", "c">>
            /\ Lower(x) \in AliasesOf(store, store.alias[a])}
    ELSE {a \in DOMAIN store.alias : a = Lower(x)}

\* parse_relation_list: the aliases of the identifiers, each once.
RECURSIVE parse_relation_list(_, _, _)
parse_relation_list(store, l, res) ==
    IF l = <<>> THEN res
    ELSE LET found == SetToSeq(RelationAliases(store, Head(l)))
             new == SelectSeq(found, LAMBDA a : a \notin Range(res))
         IN  parse_relation_list(store, Tail(l), res \o new)

\* EdgeExists that never finds the row.
EdgeNeverFound(store, edge) == FALSE

\* A RelatedDocument row is there.
EdgeExists(store, edge) == edge \in DOMAIN store.edges /\ store.edges[edge] > 0

\* RelatedDocument.objects.create
EdgeCreate(store, edge) ==
    [store EXCEPT !.edges =
        Put(@, edge, IF edge \in DOMAIN @ THEN @[edge] + 1 ELSE 1)]

\* What the body of the loop holds for one entry: the store, the document
\* it works on, the object in memory, the changes noted so far, and whether
\* an exception has ended the run.
\* s: [db, doc, mem, changes, rfc_published, raised]

\* Lines 386-410: the document of the entry and its alias.
GetOrCreate(store, e) ==
    LET name == RfcName(e.rfc_number)
        hasAlias == name \in DOMAIN store.alias
        draftDoc == e.draft # <<>> /\ e.draft \in DOMAIN store.docs
        created == ~hasAlias /\ ~draftDoc
        doc == IF hasAlias THEN store.alias[name]
               ELSE IF draftDoc THEN e.draft ELSE name
    IN  [db |-> IF hasAlias THEN store
                ELSE [store EXCEPT
                         !.docs = IF created THEN Put(@, name, NewDocument) ELSE @,
                         !.alias = Put(@, name, doc)],
         doc |-> doc,
         mem |-> IF created THEN NewDocument ELSE store.docs[doc],
         changes |-> IF hasAlias THEN <<>>
                     ELSE (IF created THEN <<Note("created document", "", name)>>
                           ELSE <<>>)
                          \o <<Note("created alias", "", name)>>,
         rfc_published |-> FALSE,
         raised |-> FALSE]

\* Lines 412-443: the attributes, set on the object in memory; the state is
\* written at once. An unknown status, stream or group raises.
SetFields(s, e) ==
    LET m0 == s.mem
        titleCh == e.title # m0.title
        abstractCh == e.abstract # "" /\ e.abstract # m0.abstract
        pagesCh == e.pages # <<>> /\ ParseInt(e.pages) # m0.pages
        statusKnown == e.current_status \in DOMAIN std_level_mapping
        stateCh == m0.state["draft"] # "rfc"
        streamKnown == e.stream \in DOMAIN stream_mapping
        groupLookup == m0.group = NoName /\ e.wg # ""
    IN  IF ~statusKnown THEN [s EXCEPT !.raised = TRUE]
        ELSE IF ~streamKnown \/ (groupLookup /\ e.wg \notin GroupAcronyms)
        THEN [s EXCEPT !.raised = TRUE,
                       !.db.docs[s.doc].state["draft"] = "rfc"]
        ELSE
        LET stdCh == std_level_mapping[e.current_status] # m0.std_level
            streamCh == m0.stream # stream_mapping[e.stream]
        IN  [s EXCEPT
               !.db.docs[s.doc].state["draft"] = "rfc",
               !.mem = [m0 EXCEPT
                      !.title = IF titleCh THEN e.title ELSE @,
                      !.abstract = IF abstractCh THEN e.abstract ELSE @,
                      !.pages = IF pagesCh THEN ParseInt(e.pages) ELSE @,
                      !.std_level = IF stdCh THEN std_level_mapping[e.current_status]
                                    ELSE @,
                      !.stream = IF streamCh THEN stream_mapping[e.stream] ELSE @,
                      !.group = IF m0.group # NoName THEN @
                                ELSE IF e.wg # "" THEN e.wg ELSE "none"],
               !.changes = @
                \o (IF titleCh THEN <<Note("changed title", e.title, <<>>)>> ELSE <<>>)
                \o (IF abstractCh THEN <<Note("changed abstract", e.abstract, <<>>)>>
                    ELSE <<>>)
                \o (IF pagesCh THEN <<Note("changed pages", "", e.pages)>> ELSE <<>>)
                \o (IF stdCh
                    THEN <<Note("changed standardization level",
                                std_level_mapping[e.current_status], <<>>)>>
                    ELSE <<>>)
                \o (IF stateCh THEN <<Note("changed state", "draft", <<>>)>> ELSE <<>>)
                \o (IF streamCh
                    THEN <<Note("changed stream", stream_mapping[e.stream], <<>>)>>
                    ELSE <<>>)
                \o (IF groupLookup THEN <<Note("set group", e.wg, <<>>)>> ELSE <<>>)]

\* "%Y-%m-%d" of a time
DateText(time) ==
    ZeroPad(IntStr(time.year), 4) \o <<"-">> \o ZeroPad(IntStr(time.month), 2)
       \o <<"-">> \o ZeroPad(IntStr(time.day), 2)

\* The event of lines 468-472 at the time given.
AddPublished(s, time) ==
    [s EXCEPT !.db.docs[s.doc].published = Append(@, time),
              !.changes = Append(@, Note("added RFC published event", "",
                                         DateText(time))),
              !.rfc_published = TRUE]

\* PublishedEvent without the look for an earlier event.
PublishedEventAlways(s, e, now) ==
    AddPublished(s, Synthesize(e.rfc_published_date, now).time)

\* Lines 445-473: the published_rfc event, when the document has none.
PublishedEvent(s, e, now) ==
    IF s.db.docs[s.doc].published = <<>>
    THEN AddPublished(s, Synthesize(e.rfc_published_date, now).time)
    ELSE s

\* DownstreamStates that sets every state there is to pub.
DownstreamStatesForcePub(s, types) ==
    LET st == s.db.docs[s.doc].state
    IN  [s EXCEPT !.db.docs[s.doc].state =
            [t \in DOMAIN st |->
                IF t \notin Range(types) THEN st[t]
                ELSE IF st[t] # NoState THEN "pub"
                ELSE IF t = "draft-iesg" THEN "idexists" ELSE st[t]]]

\* Lines 475-486: the states of the other state types.
RECURSIVE DownstreamStates(_, _)
DownstreamStates(s, types) ==
    IF types = <<>> THEN s
    ELSE LET t == Head(types)
             prev_state == s.db.docs[s.doc].state[t]
         IN  IF prev_state # NoState
             THEN IF prev_state \notin {"pub", "idexists"}
                  THEN DownstreamStates(
                          [s EXCEPT !.db.docs[s.doc].state[t] = "pub",
                                    !.changes = Append(@, Note("changed state", t, <<>>))],
                          Tail(types))
                  ELSE DownstreamStates(s, Tail(types))
             ELSE IF t = "draft-iesg"
             THEN DownstreamStates(
                     [s EXCEPT !.db.docs[s.doc].state[t] = "idexists"], Tail(types))
             ELSE DownstreamStates(s, Tail(types))

\* Lines 503-511 for one relationship: an edge for each alias that has none.
RECURSIVE RelateAll(_, _, _)
RelateAll(s, targets, relationship) ==
    IF targets = <<>> THEN s
    ELSE LET edge == [source |-> s.doc, target |-> Head(targets),
                      relationship |-> relationship]
         IN  IF EdgeExists(s.db, edge)
             THEN RelateAll(s, Tail(targets), relationship)
             ELSE RelateAll([s EXCEPT
                               !.db = EdgeCreate(@, edge),
                               !.changes = Append(@,
                                  Note("created relation", relationship, Head(targets)))],
                            Tail(targets), relationship)

\* Lines 503-511: the relation list is parsed, then the edges are made.
Relate(s, l, relationship) ==
    RelateAll(s, parse_relation_list(s.db, l, <<>>), relationship)

\* Lines 513-518: the aliases of the also list that do not exist yet.
RECURSIVE AlsoAliases(_, _)
AlsoAliases(s, also) ==
    IF also = <<>> THEN s
    ELSE IF Lower(Head(also)) \in DOMAIN s.db.alias
    THEN AlsoAliases(s, Tail(also))
    ELSE AlsoAliases([s EXCEPT
                        !.db.alias = Put(@, Lower(Head(also)), s.doc),
                        !.changes = Append(@, Note("created alias", "",
                                                   Lower(Head(also))))],
                     Tail(also))

\* ErrataTags that never looks for a Verified erratum.
ErrataTagsNoVerified(s, has_errata, doc_errata) ==
    IF has_errata # 0
    THEN [s EXCEPT !.db.docs[s.doc].tags = @ \cup {"errata"},
                   !.changes = IF "errata" \in s.db.docs[s.doc].tags THEN @
                               ELSE Append(@, Note("added Errata tag", "", <<>>))]
    ELSE s

\* ErrataTags that does not look whether all errata are rejected.
ErrataTagsNoRejectedCheck(s, has_errata, doc_errata) ==
    IF has_errata # 0
    THEN [s EXCEPT !.db.docs[s.doc].tags = @ \cup {"errata"},
                   !.changes = IF "errata" \in s.db.docs[s.doc].tags THEN @
                               ELSE Append(@, Note("added Errata tag", "", <<>>))]
    ELSE [s EXCEPT !.db.docs[s.doc].tags = @ \ {"errata", "verified-errata"},
                   !.changes = IF "errata" \in s.db.docs[s.doc].tags
                               THEN Append(@, Note("removed Errata tag", "", <<>>))
                               ELSE @]

\* Lines 520-539: the errata tags.
ErrataTags(s, has_errata, doc_errata) ==
    LET all_rejected ==
            /\ doc_errata # <<>>
            /\ \A i \in 1..Len(doc_errata) :
                  doc_errata[i].errata_status_code = "Rejected"
        has_verified_errata ==
            \E i \in 1..Len(doc_errata) : doc_errata[i].errata_status_code = "Verified"
        tags == s.db.docs[s.doc].tags
    IN  IF has_errata # 0 /\ ~all_rejected
        THEN LET add1 == "errata" \notin tags
                 add2 == has_verified_errata /\ "verified-errata" \notin tags
             IN  [s EXCEPT
                    !.db.docs[s.doc].tags =
                            @ \cup (IF add1 THEN {"errata"} ELSE {})
                              \cup (IF add2 THEN {"verified-errata"} ELSE {}),
                    !.changes = @
                     \o (IF add1 THEN <<Note("added Errata tag", "", <<>>)>> ELSE <<>>)
                     \o (IF add2 THEN <<Note("added Verified Errata tag", "", <<>>)>>
                         ELSE <<>>)]
        ELSE LET rem1 == "errata" \in tags
                 rem2 == "verified-errata" \in tags
             IN  [s EXCEPT
                    !.db.docs[s.doc].tags = @ \ {"errata", "verified-errata"},
                    !.changes = @
                     \o (IF rem1
                         THEN <<Note(IF all_rejected
                                     THEN "removed Errata tag (all errata rejected)"
                                     ELSE "removed Errata tag", "", <<>>)>>
                         ELSE <<>>)
                     \o (IF rem2 THEN <<Note("removed Verified Errata tag", "", <<>>)>>
                         ELSE <<>>)]

\* doc.save(): the row takes the saved fields of the object in memory.
SaveFields(row, mem) ==
    [row EXCEPT !.title = mem.title, !.abstract = mem.abstract, !.pages = mem.pages,
                !.std_level = mem.std_level, !.stream = mem.stream,
                !.group = mem.group]

\* Lines 541-553: with changes, the sync event is created, the document is
\* saved and the entry is yielded.
SaveAndYield(s) ==
    [db |-> IF s.changes # <<>>
            THEN [s.db EXCEPT !.docs[s.doc] = SaveFields(@, s.mem)]
            ELSE s.db,
     changes |-> s.changes,
     doc |-> s.doc,
     rfc_published |-> s.rfc_published,
     events |-> (IF s.rfc_published THEN <<Event(s.doc, "published_rfc", "")>>
                 ELSE <<>>)
             \o (IF s.changes # <<>> THEN <<Event(s.doc, "sync_from_rfc_editor", "")>>
                 ELSE <<>>),
     raised |-> FALSE]

\* What the body of the loop leaves when an exception ends it: the rows
\* written so far stay, nothing is yielded.
Raised(s) ==
    [db |-> s.db, changes |-> <<>>, doc |-> s.doc, rfc_published |-> FALSE,
     events |-> <<>>, raised |-> TRUE]

\* Lines 445-553, for an entry whose attributes are set.
AfterFields(s, e, errata_data, now) ==
    IF s.raised THEN Raised(s)
    ELSE SaveAndYield(
            ErrataTags(
               AlsoAliases(
                  Relate(
                     Relate(
                        DownstreamStates(
                           PublishedEvent(s, e, now),
                           <<"draft-iesg", "draft-stream-iab", "draft-stream-irtf",
                             "draft-stream-ise">>),
                        e.obsoletes, "obs"),
                     e.updates, "updates"),
                  e.also),
               e.has_errata, ErrataFor(errata_data, ErrataKey(e.rfc_number))))

\* The body of the loop over the index for one entry (lines 383-553).
IndexEntry(store, e, errata_data, now) ==
    AfterFields(SetFields(GetOrCreate(store, e), e), e, errata_data, now)

\* An absent skip_older_than_date.
NoSkipDate == [given |-> FALSE, year |-> 1, month |-> 1, day |-> 1]

\* Line 379
Skipped(e, skip_older_than_date) ==
    /\ skip_older_than_date.given
    /\ Ordinal([year |-> e.rfc_published_date.year,
                month |-> e.rfc_published_date.month, day |-> 1])
          < Ordinal(skip_older_than_date)

\* The run after one entry: r is what the body of the loop left.
Collect(s, r) ==
    IF r.raised THEN [s EXCEPT !.db = r.db, !.raised = TRUE]
    ELSE [db |-> r.db,
          yielded |-> IF r.changes # <<>>
                      THEN Append(s.yielded,
                              [changes |-> r.changes, doc |-> r.doc,
                               rfc_published |-> r.rfc_published])
                      ELSE s.yielded,
          events |-> s.events \o r.events,
          raised |-> FALSE]

\* update_docs_from_rfc_index, read to its end: the store it leaves, the
\* tuples it yields, the events it creates, and whether an exception ended it.
RECURSIVE IndexLoop(_, _, _, _, _)
IndexLoop(s, index_data, errata_data, skip_older_than_date, now) ==
    IF s.raised \/ index_data = <<>> THEN s
    ELSE IF Skipped(Head(index_data), skip_older_than_date)
    THEN IndexLoop(s, Tail(index_data), errata_data, skip_older_than_date, now)
    ELSE IndexLoop(Collect(s, IndexEntry(s.db, Head(index_data), errata_data, now)),
                   Tail(index_data), errata_data, skip_older_than_date, now)

update_docs_from_rfc_index(store, index_data, errata_data, skip_older_than_date, now) ==
    IndexLoop([db |-> store, yielded |-> <<>>, events |-> <<>>, raised |-> FALSE],
              index_data, errata_data, skip_older_than_date, now)

(***************************************************************************)
(* The index reconciler run against a store.                               *)
(***************************************************************************)
MaxIndex == 2

idSTD1 == <<"S", "T", "D", "1">>
aRfc20 == <<"r", "f", "c", "2", "0">>
aRfc1000 == <<"r", "f", "c", "1", "0", "0", "0">>
aStd1 == <<"s", "t", "d", "1">>

\* The time of each run: the runs are some weeks apart.
Clock ==
    <<[year |-> 2024, month |-> 3, day |-> 15, tod |-> 1],
      [year |-> 2024, month |-> 4, day |-> 4, tod |-> 1],
      [year |-> 2024, month |-> 4, day |-> 24, tod |-> 1],
      [year |-> 2024, month |-> 5, day |-> 14, tod |-> 1]>>

NowAt(r) == Clock[r + 1]

\* The index entry of RFC 20, which the feed may say obsoletes and updates
\* RFC 1000, named by its number and as STD 1.
Entry20(obsoletes, draft) ==
    [rfc_number |-> 20, title |-> "Title of RFC 20",
     rfc_published_date |-> [year |-> 2024, month |-> 3],
     current_status |-> "Proposed Standard",
     updates |-> IF Len(obsoletes) > 1 THEN <<idRFC1000>> ELSE <<>>,
     obsoletes |-> obsoletes, also |-> <<>>, draft |-> draft, has_errata |-> 0,
     stream |-> "IETF", wg |-> "", pages |-> <<"5">>,
     abstract |-> "Abstract of RFC 20"]

\* The index entry of RFC 1000, which has no abstract and no page count.
Entry1000(also, current_status, stream, wg) ==
    [rfc_number |-> 1000, title |-> "Title of RFC 1000",
     rfc_published_date |-> [year |-> 1987, month |-> 8],
     current_status |-> current_status,
     updates |-> <<>>, obsoletes |-> <<>>, also |-> also, draft |-> <<>>,
     has_errata |-> 0, stream |-> stream, wg |-> wg, pages |-> <<>>,
     abstract |-> ""]

IndexEntries ==
    {Entry20(<<>>, dA), Entry20(<<idRFC1000>>, <<>>), Entry20(<<idRFC1000, idSTD1>>, dA)}
    \cup {Entry1000(<<>>, "Historic", "Legacy", ""),
          Entry1000(<<idSTD1>>, "Internet Standard", "IETF", "httpbis"),
          Entry1000(<<>>, "Not Issued", "Legacy", ""),
          Entry1000(<<>>, "Historic", "Editorial", ""),
          Entry1000(<<>>, "Historic", "Legacy", "nosuchwg")}

\* The parsed indexes: an RFC number is listed once.
Indexes ==
    {x \in SeqsUpTo(IndexEntries, MaxIndex) :
        \A i, j \in 1..Len(x) : x[i].rfc_number = x[j].rfc_number => i = j}

\* The draft that becomes RFC 20, in the RFC Editor's queue.
DraftRow ==
    [NewDocument EXCEPT
        !.title = "A draft", !.abstract = "Abstract of a draft", !.pages = 12,
        !.std_level = "ps", !.stream = "ietf", !.group = "httpbis",
        !.state["draft"] = "active", !.state["draft-iesg"] = "rfcqueue",
        !.state["draft-rfceditor"] = "auth48"]

\* RFC 1000 as an earlier run has left it.
OldRfcRow ==
    [NewDocument EXCEPT
        !.title = "Old title", !.abstract = "Old abstract", !.pages = 7,
        !.std_level = "hist", !.stream = "legacy", !.group = "none",
        !.state["draft"] = "rfc", !.state["draft-iesg"] = "idexists",
        !.published = <<[year |-> 1987, month |-> 8, day |-> 1, tod |-> 0]>>]

\* The draft that becomes RFC 20 when it is on the independent stream, in
\* the RFC Editor's hands.
IseDraftRow ==
    [DraftRow EXCEPT
        !.stream = "ise", !.group = "none",
        !.state["draft-iesg"] = "idexists", !.state["draft-stream-ise"] = "rfc-edit"]

\* RFC 1000 as the index names it, a row that has no draft-iesg state (the
\* case of line 485).
LegacyRfcRow ==
    [OldRfcRow EXCEPT !.title = "Title of RFC 1000", !.state["draft-iesg"] = NoState]

IndexStores ==
    {[docs |-> (dA :> DraftRow), alias |-> (dA :> dA), edges |-> <<>>],
     [docs |-> (dA :> DraftRow) @@ (aRfc1000 :> OldRfcRow),
      alias |-> (dA :> dA) @@ (aRfc1000 :> aRfc1000), edges |-> <<>>],
     [docs |-> (dA :> DraftRow) @@ (aRfc1000 :> OldRfcRow),
      alias |-> (dA :> dA) @@ (aRfc1000 :> aRfc1000) @@ (aStd1 :> aRfc1000),
      edges |-> <<>>],
     [docs |-> (dA :> DraftRow) @@ (aRfc1000 :> LegacyRfcRow),
      alias |-> (dA :> dA) @@ (aRfc1000 :> aRfc1000), edges |-> <<>>],
     [docs |-> (dA :> IseDraftRow), alias |-> (dA :> dA), edges |-> <<>>]}

InitIndex ==
    /\ db \in IndexStores
    /\ InitStoreCommon
    /\ ParseIdle
    /\ InitNotify

\* s reversed
Reverse(s) == [i \in 1..Len(s) |-> s[Len(s) + 1 - i]]

\* What one call leaves in the store and in the record of the last call: now
\* is the time of the call, r is the call read to its end, v the same call on
\* the index in the opposite order.
IndexResult(index_data, errata_data, now, r, v) ==
    /\ db' = r.db
    /\ iin' = [called |-> TRUE, index_data |-> index_data,
               errata_data |-> errata_data, now |-> now]
    /\ iout' = [yielded |-> r.yielded, events |-> r.events, raised |-> r.raised,
                reversed |-> [db |-> v.db, yielded |-> v.yielded,
                              raised |-> v.raised]]

\* One call of update_docs_from_rfc_index, read to its end.
IndexCall(index_data, errata_data, skip_older_than_date, now) ==
    IndexResult(index_data, errata_data, now,
                update_docs_from_rfc_index(db, index_data, errata_data,
                                           skip_older_than_date, now),
                update_docs_from_rfc_index(db, Reverse(index_data), errata_data,
                                           skip_older_than_date, now))

RunIndex ==
    /\ runs < MaxRuns
    /\ WithinCaps(db)
    /\ \E index_data \in Indexes : IndexCall(index_data, <<>>, NoSkipDate, NowAt(runs))
    /\ runs' = runs + 1
    /\ UNCHANGED <<qin, qout>>

NextIndex == RunIndex /\ UNCHANGED <<parseVars, notifyVars>>

(***************************************************************************)
(* Properties of the queue reconciler.                                     *)
(***************************************************************************)
\* The step is a call of update_drafts_from_queue that returned.
QueueReturned == runs' = runs + 1 /\ qin'.called /\ ~qout'.raised

\* The entries of the last call that the loop did not skip.
Processed(store, e) ==
    /\ e.name \in drafts_in_db(store, {e.name}) \cap {e.name}
    /\ e.state # "" /\ e.state \in DOMAIN state_mapping

\* C4: a document never has more than one "rfc_editor_received_announcement"
\* event; the mail about it is sent in the step that creates the event and
\* in no other, and that step takes draft-iesg from ann to rfcqueue.
C4_ReceivedOnce ==
    [][\A d \in DOMAIN db.docs :
          /\ db'.docs[d].received <= 1
          /\ db'.docs[d].mails - db.docs[d].mails
                = db'.docs[d].received - db.docs[d].received
          /\ db'.docs[d].mails = db'.docs[d].received
          /\ db'.docs[d].received > db.docs[d].received =>
                /\ runs' = runs + 1
                /\ db.docs[d].state["draft-iesg"] = "ann"
                /\ db'.docs[d].state["draft-iesg"] = "rfcqueue"
                /\ Event(d, "rfc_editor_received_announcement", "")
                      \in Range(qout'.events)]_vars

\* C4 witness: a second run has processed an entry of a draft that is
\* announced again and already has its event, and has left it with one.
C4_Witness ==
    /\ runs = 2 /\ qin.called /\ ~qout.raised
    /\ \E i \in 1..Len(qin.drafts) :
          qin.drafts[i].name = dA /\ Processed(db, qin.drafts[i])
    /\ db.docs[dA].received = 1 /\ db.docs[dA].mails = 1
    /\ db.docs[dA].state["draft-iesg"] = "ann"
    /\ Event(dA, "changed_state", "draft-rfceditor") \in Range(qout.events)

\* C5: the set a run returns holds exactly the names of the documents the
\* run changed or cleared.
C5_ChangedSetAccurate ==
    [][QueueReturned =>
          qout'.changed = {d \in DOMAIN db.docs : db'.docs[d] # db.docs[d]}]_vars

\* C6: for a processed entry, the run keeps every tag of the document other
\* than ref and iana, makes its ref/iana tags those of the entry, and leaves
\* the tags alone when the ref/iana tags already agree.
C6_TagsRestrictedToRefIana ==
    [][QueueReturned =>
          \A i \in 1..Len(qin'.drafts) :
             LET e == qin'.drafts[i]
                 RI == {tag_mapping.REF, tag_mapping.IANA}
             IN  Processed(db, e) =>
                    /\ db.docs[e.name].tags \ RI \subseteq db'.docs[e.name].tags
                    /\ db'.docs[e.name].tags \cap RI = Range(e.tags)
                    /\ db.docs[e.name].tags \cap RI = Range(e.tags) =>
                          db'.docs[e.name].tags = db.docs[e.name].tags]_vars

(***************************************************************************)
(* Properties of the index reconciler.                                     *)
(***************************************************************************)
\* The step is a call of update_docs_from_rfc_index that was read to its end.
IndexReturned == runs' = runs + 1 /\ iin'.called /\ ~iout'.raised

\* C1: a run that follows a completed run on the same index and errata,
\* with nothing done to the store in between, yields nothing.
C1_SecondRunYieldsNothing ==
    [][(/\ IndexReturned
        /\ iin.called /\ ~iout.raised
        /\ iin'.index_data = iin.index_data
        /\ iin'.errata_data = iin.errata_data)
       => iout'.yielded = <<>>]_vars

\* C2: no (source, target, relationship) has more than one RelatedDocument
\* row, and a row that is there stays as it is.
C2_EdgeUnique ==
    [][/\ \A edge \in DOMAIN db'.edges : db'.edges[edge] <= 1
       /\ \A edge \in DOMAIN db.edges :
             edge \in DOMAIN db'.edges /\ db'.edges[edge] = db.edges[edge]]_vars

\* C2 witness: a second run has read an entry that names RFC 1000 by its
\* number and as STD 1, both resolving to the alias rfc1000, whose obsoletes
\* row was there already; the run has changed nothing.
C2_Witness ==
    /\ runs = 2 /\ iin.called /\ ~iout.raised /\ iout.yielded = <<>>
    /\ \E i \in 1..Len(iin.index_data) :
          /\ iin.index_data[i].obsoletes = <<idRFC1000, idSTD1>>
          /\ iin.index_data[i].updates = <<idRFC1000>>
    /\ aStd1 \in DOMAIN db.alias /\ db.alias[aStd1] = db.alias[aRfc1000]
    /\ \E edge \in DOMAIN db.edges :
          /\ edge.target = aRfc1000 /\ edge.relationship = "obs"
          /\ db.edges[edge] = 1

\* C10: the index read in the opposite order leaves the same store and
\* yields the same tuples.
C10_OrderIndependent ==
    (iin.called /\ ~iout.raised /\ ~iout.reversed.raised) =>
        /\ iout.reversed.db = db
        /\ Range(iout.reversed.yielded) = Range(iout.yielded)

\* C9: a call of update_drafts_from_queue returns; no exception leaves it.
C9_NoExceptionEscapes == qin.called => ~qout.raised

(***************************************************************************)
(* The index reconciler run with errata records on a store that holds      *)
(* RFC 20.                                                                 *)
(***************************************************************************)
MaxErrata == 2

\* RFC 20 as an earlier run has left it.
Rfc20Row ==
    [NewDocument EXCEPT
        !.title = "Title of RFC 20", !.abstract = "Abstract of RFC 20", !.pages = 5,
        !.std_level = "ps", !.stream = "ietf", !.group = "none",
        !.state["draft"] = "rfc", !.state["draft-iesg"] = "idexists",
        !.published = <<[year |-> 2024, month |-> 3, day |-> 1, tod |-> 0]>>]

ErrataStores ==
    {[docs |-> (aRfc20 :> [Rfc20Row EXCEPT !.tags = t]),
      alias |-> (aRfc20 :> aRfc20), edges |-> <<>>] :
        t \in {{}, {"errata"}, {"errata", "verified-errata"}}}

\* The records of errata.json: the doc-id and the status of an erratum.
ErrataItems ==
    {[doc_id |-> idRFC0020, errata_status_code |-> c] :
        c \in {"Verified", "Rejected", "Reported"}}
    \cup {[doc_id |-> idRFC1000, errata_status_code |-> "Verified"]}

ErrataLists == SeqsUpTo(ErrataItems, MaxErrata)

\* The index entry of RFC 20 with and without an errata-url.
ErrataIndexes == {<<[Entry20(<<>>, <<>>) EXCEPT !.has_errata = h]>> : h \in {0, 1}}

InitErrata ==
    /\ db \in ErrataStores
    /\ InitStoreCommon
    /\ ParseIdle
    /\ InitNotify

RunErrata ==
    /\ runs < MaxRuns
    /\ WithinCaps(db)
    /\ \E index_data \in ErrataIndexes, errata_data \in ErrataLists :
          IndexCall(index_data, errata_data, NoSkipDate, NowAt(runs))
    /\ runs' = runs + 1
    /\ UNCHANGED <<qin, qout>>

NextErrata == RunErrata /\ UNCHANGED <<parseVars, notifyVars>>

SpecErrata == InitErrata /\ [][NextErrata]_vars

\* The errata records hold a Verified erratum of the RFC of the entry.
HasVerified(errata_data, e) ==
    \E i \in 1..Len(errata_data) :
        /\ errata_data[i].doc_id = ErrataKey(e.rfc_number)
        /\ errata_data[i].errata_status_code = "Verified"

\* The tags of the document of an entry.
TagsOfEntry(store, e) == store.docs[store.alias[RfcName(e.rfc_number)]].tags

\* C8 as stated: after a run, the document of every entry that has a
\* Verified erratum carries the tags errata and verified-errata.
C8_VerifiedGivesBothTags ==
    (iin.called /\ ~iout.raised) =>
        \A i \in 1..Len(iin.index_data) :
            HasVerified(iin.errata_data, iin.index_data[i]) =>
                {"errata", "verified-errata"} \subseteq TagsOfEntry(db, iin.index_data[i])

\* C8: after a run, the document of every entry whose has_errata is set and
\* that has a Verified erratum under its zero-padded identifier carries the
\* tags errata and verified-errata, whatever tags it carried before.
C8_VerifiedWithHasErrata ==
    (iin.called /\ ~iout.raised) =>
        \A i \in 1..Len(iin.index_data) :
            (iin.index_data[i].has_errata # 0
               /\ HasVerified(iin.errata_data, iin.index_data[i])) =>
                {"errata", "verified-errata"} \subseteq TagsOfEntry(db, iin.index_data[i])

\* C8 witness: a run has read an entry with has_errata set and a Verified
\* erratum, has added the verified-errata tag and has left both tags.
C8_Witness ==
    /\ iin.called /\ ~iout.raised
    /\ iin.index_data[1].has_errata = 1
    /\ HasVerified(iin.errata_data, iin.index_data[1])
    /\ \E y \in Range(iout.yielded) :
          Note("added Verified Errata tag", "", <<>>) \in Range(y.changes)
    /\ TagsOfEntry(db, iin.index_data[1]) = {"errata", "verified-errata"}

(***************************************************************************)
(* The parser and the notifier on their own.                               *)
(***************************************************************************)
\* The store is empty and no reconciler has run.
StoreIdle ==
    /\ db = [docs |-> <<>>, alias |-> <<>>, edges |-> <<>>]
    /\ InitStoreCommon

NextParse == ParseIndex /\ UNCHANGED <<notifyVars, storeVars>>

\* A feed to parse; nothing else has been used.
InitParser == InitParse /\ QueueParseIdle /\ InitNotify /\ StoreIdle

SpecParse == InitParser /\ [][NextParse]_vars

NextNotify == PostApprovedDraft /\ UNCHANGED <<parseVars, storeVars>>

\* Nothing has been used.
InitNotifier == ParseIdle /\ InitNotify /\ StoreIdle

SpecNotify == InitNotifier /\ [][NextNotify]_vars

\* The doc-id of an is-also list names the RFC with this number.
NamesRfc(docid, rfc_number) ==
    Take(docid, 3) = sRFC /\ ParseInt(Drop(docid, 3)) = rfc_number

\* C7: the also list of every entry parse_index returns holds the normalized
\* identifier of every bcp-, fyi- or std-entry of the feed whose is-also
\* list names the RFC of the entry.
C7_AlsoKnownAs ==
    parsed.done =>
        \A i \in 1..Len(parsed.data), j \in 1..Len(feed) :
            (/\ feed[j].tag \in {"bcp-entry", "fyi-entry", "std-entry"}
             /\ \E k \in 1..Len(feed[j].isalso) :
                   NamesRfc(feed[j].isalso[k], parsed.data[i].rfc_number))
            => normalize_std_name(feed[j].docid) \in Range(parsed.data[i].also)

\* C3: post_approved_draft returns ("OK", "") for a response of status 200
\* with body "OK", and ("", e) with e the text that says the response is
\* not OK for a response of status 200 with body "FAIL".
C3_NotifierResult ==
    (nreq.called /\ ~nreq.outcome.raised /\ nreq.outcome.status = 200) =>
        /\ nreq.outcome.body = "OK" => nres = [text |-> "OK", error |-> ""]
        /\ nreq.outcome.body = "FAIL" =>
              /\ nres.text = ""
              /\ nres.error = "Response is not \"OK\" (it's \"FAIL\")."

\* C11: the error string post_approved_draft returns is empty if and only if
\* the request completed with status 200 and the body "OK".
C11_ErrorEmptyIffOk ==
    nreq.called =>
        (nres.error = ""
           <=> (/\ ~nreq.outcome.raised
                /\ nreq.outcome.status = 200
                /\ nreq.outcome.body = "OK"))

\* The warning the loop over the queue appends for an entry it skips.
SkipWarning(store, e) ==
    IF e.name \notin drafts_in_db(store, {e.name})
    THEN [kind |-> "unknown document", state |-> "", name |-> e.name]
    ELSE [kind |-> "unknown state", state |-> e.state, name |-> e.name]

\* How many times x is in the sequence s.
Count(s, x) == Cardinality({i \in 1..Len(s) : s[i] = x})

\* C12: a run appends one warning for every entry that names no document or
\* has an empty or unrecognized state code, leaves the document of such an
\* entry as it was, and processes every other entry: a processed entry's
\* document ends in the state mapped from its code.
C12_SoftSkips ==
    [][QueueReturned =>
          \A i \in 1..Len(qin'.drafts) :
             LET e == qin'.drafts[i]
             IN  IF Processed(db, e)
                 THEN db'.docs[e.name].state["draft-rfceditor"] = state_mapping[e.state]
                 ELSE /\ Count(qout'.warnings, SkipWarning(db, e)) = 1
                      /\ e.name \in DOMAIN db.docs =>
                            db'.docs[e.name] = db.docs[e.name]]_vars

\* C12 witness: a run has read an entry with an unrecognized code for a
\* draft that has a draft-rfceditor state, and an entry of another draft; it
\* has warned about the first, left its state and processed the second.
C12_Witness ==
    /\ qin.called /\ ~qout.raised /\ Len(qin.drafts) = 2
    /\ qin.drafts[1].name = dA /\ qin.drafts[1].state = "BOGUS"
    /\ qin.drafts[2].name = dB
    /\ qout.warnings = <<[kind |-> "unknown state", state |-> "BOGUS", name |-> dA]>>
    /\ db.docs[dA].state["draft-rfceditor"] = "edit"
    /\ dB \in qout.changed /\ db.docs[dB].tags = {"iana"}

\* A state text to parse; nothing else has been used.
InitQueueParser ==
    /\ InitParseQueue
    /\ feed = <<>> /\ parsed = [done |-> FALSE, data |-> <<>>]
    /\ InitNotify /\ StoreIdle

NextParseQueue ==
    ParseQueue /\ UNCHANGED <<feed, parsed, notifyVars, storeVars>>

SpecParseQueue == InitQueueParser /\ [][NextParseQueue]_vars

\* C13: for a state text that contains both "*R" and "*A", parse_queue gives
\* the tags ref and iana and a state that contains neither marker, the same
\* state that stripping "*A" before "*R" gives.
C13_BothMarkersDecoded ==
    (qparsed.done /\ Contains(qfeed, mR) /\ Contains(qfeed, mA)) =>
        /\ Range(qparsed.tags) = {"ref", "iana"}
        /\ ~Contains(qparsed.state, mR)
        /\ ~Contains(qparsed.state, mA)
        /\ qparsed.state = StripMissref(Replace(Replace(qfeed, mA), mR)).state

\* C14: a document never has more than one published_rfc event; the time of
\* an event that is there does not change; and a run yields the published
\* flag for a document exactly when it has found the document without the
\* event and has created it.
C14_PublishedOnce ==
    [][\A d \in DOMAIN db'.docs :
          LET had == d \in DOMAIN db.docs /\ db.docs[d].published # <<>>
          IN  /\ Len(db'.docs[d].published) <= 1
              /\ had => db'.docs[d].published = db.docs[d].published
              /\ (\E y \in Range(iout'.yielded) : y.doc = d /\ y.rfc_published)
                    <=> (~had /\ db'.docs[d].published # <<>>)]_vars

\* C14 witness: a second run, at a later time, has read the entry of RFC 20,
\* whose event the first run made; the event keeps the time of the first run
\* and the second run yields no published flag.
C14_Witness ==
    /\ runs = 2 /\ iin.called /\ ~iout.raised
    /\ \E i \in 1..Len(iin.index_data) : iin.index_data[i].rfc_number = 20
    /\ aRfc20 \in DOMAIN db.alias
    /\ db.docs[db.alias[aRfc20]].published = <<NowAt(0)>>
    /\ \A y \in Range(iout.yielded) : ~y.rfc_published

\* The errata records of the RFC of the entry are there and all Rejected.
AllRejected(errata_data, e) ==
    /\ ErrataFor(errata_data, ErrataKey(e.rfc_number)) # <<>>
    /\ \A i \in 1..Len(errata_data) :
          errata_data[i].doc_id = ErrataKey(e.rfc_number) =>
             errata_data[i].errata_status_code = "Rejected"

\* C15: a run that has read an entry with has_errata set whose errata
\* records are all Rejected leaves its document without the tags errata and
\* verified-errata, and when the document had the errata tag the run yields
\* the note that the tag was removed because all errata are rejected.
C15_AllRejectedClearsTags ==
    [][IndexReturned =>
          \A i \in 1..Len(iin'.index_data) :
             LET e == iin'.index_data[i]
             IN  (e.has_errata # 0 /\ AllRejected(iin'.errata_data, e)) =>
                    /\ TagsOfEntry(db', e) \cap {"errata", "verified-errata"} = {}
                    /\ "errata" \in TagsOfEntry(db, e) =>
                          \E y \in Range(iout'.yielded) :
                             /\ y.doc = db'.alias[RfcName(e.rfc_number)]
                             /\ Note("removed Errata tag (all errata rejected)", "", <<>>)
                                   \in Range(y.changes)]_vars

\* C15 witness: a run has read an entry with has_errata set and only
\* Rejected errata for a document that carried both tags, and has removed
\* them with the note that all errata are rejected.
C15_Witness ==
    /\ iin.called /\ ~iout.raised
    /\ iin.index_data[1].has_errata = 1
    /\ AllRejected(iin.errata_data, iin.index_data[1])
    /\ TagsOfEntry(db, iin.index_data[1]) = {}
    /\ \E y \in Range(iout.yielded) :
          /\ Note("removed Errata tag (all errata rejected)", "", <<>>)
                \in Range(y.changes)
          /\ Note("removed Verified Errata tag", "", <<>>) \in Range(y.changes)

\* The queue reconciler run again and again, with nothing done to the store
\* between the runs.
NextRequeue == RunAnyQueue /\ UNCHANGED <<parseVars, notifyVars>>

SpecRequeue == InitQueue /\ [][NextRequeue]_vars

\* The step is a run on the list of the run before it, which returned.
SameQueueAgain ==
    /\ QueueReturned
    /\ qin.called /\ ~qout.raised
    /\ qin'.drafts = qin.drafts

QueueStateEvent(out, name) ==
    \E i \in 1..Len(out.events) :
        out.events[i] = Event(name, "changed_state", "draft-rfceditor")

\* C17: after a run has processed an entry of a known document with a known
\* state, the draft-rfceditor state of the document is the state mapped from
\* the entry; the run creates a state-change event of that state exactly
\* when the mapped state differs from the state the document had, and then
\* the auth48 url record is the entry's url, or absent when the entry has
\* none; when the state is the same the record is left as it was.
C17_StateConditional ==
    [][QueueReturned =>
          \A i \in 1..Len(qin'.drafts) :
              LET e == qin'.drafts[i]
                  next_state == state_mapping[e.state]
              IN  Processed(db, e) =>
                    /\ db'.docs[e.name].state["draft-rfceditor"] = next_state
                    /\ QueueStateEvent(qout', e.name)
                          <=> db.docs[e.name].state["draft-rfceditor"] # next_state
                    /\ IF db.docs[e.name].state["draft-rfceditor"] # next_state
                       THEN db'.docs[e.name].auth48 =
                               (IF e.auth48 # "" THEN e.auth48 ELSE NoUrl)
                       ELSE db'.docs[e.name].auth48 = db.docs[e.name].auth48]_vars

\* C17 witness: the run read d-a in AUTH48 with its url; it changed the
\* state to auth48, created the event of the change and recorded the url.
C17_Witness ==
    /\ qin.called /\ ~qout.raised
    /\ \E i \in 1..Len(qin.drafts) :
          /\ qin.drafts[i].name = dA
          /\ qin.drafts[i].state = "AUTH48" /\ qin.drafts[i].auth48 = Auth48Url
    /\ QueueStateEvent(qout, dA)
    /\ db.docs[dA].state["draft-rfceditor"] = "auth48"
    /\ db.docs[dA].auth48 = Auth48Url

\* What the store holds about the document d: its row, the aliases that
\* point to it and the relations it is the source of.
StoredAbout(store, d) ==
    [row |-> IF d \in DOMAIN store.docs THEN <<store.docs[d]>> ELSE <<>>,
     aliases |-> {a \in DOMAIN store.alias : store.alias[a] = d},
     edges |-> {edge \in DOMAIN store.edges :
                   edge.source = d /\ store.edges[edge] > 0}]

\* C18: in a call read to its end every yielded tuple has a non-empty change
\* list, every document has as many "sync_from_rfc_editor" events as yielded
\* tuples, and a document for which nothing was yielded is stored (row,
\* states, tags, aliases, relations, events) as it was before the call.
C18_YieldIffChange ==
    [][IndexReturned =>
          /\ \A i \in 1..Len(iout'.yielded) : iout'.yielded[i].changes # <<>>
          /\ \A d \in DOMAIN db'.docs :
                /\ Count(iout'.events, Event(d, "sync_from_rfc_editor", ""))
                      = Cardinality({i \in 1..Len(iout'.yielded) :
                                        iout'.yielded[i].doc = d})
                /\ (\A i \in 1..Len(iout'.yielded) : iout'.yielded[i].doc # d)
                      => StoredAbout(db', d) = StoredAbout(db, d)]_vars

\* The page count an index entry gives: none when the entry has no count.
EntryPages(e) == IF e.pages = <<>> THEN NoPages ELSE ParseInt(e.pages)

\* The last call yielded a change note of this kind for the document.
HasNote(out, doc, kind) ==
    \E i \in 1..Len(out.yielded) :
        /\ out.yielded[i].doc = doc
        /\ \E j \in 1..Len(out.yielded[i].changes) :
              out.yielded[i].changes[j].kind = kind

\* C19: after a call read to its end, the document of every entry has the
\* entry's title, abstract, page count, standardization level and stream
\* (an empty abstract or page count included), and a change note of a field
\* is yielded exactly when the document's value differed from the entry's.
C19_FieldsFollowEntry ==
    [][IndexReturned =>
          \A i \in 1..Len(iin'.index_data) :
              LET e == iin'.index_data[i]
                  doc == db'.alias[RfcName(e.rfc_number)]
                  old == IF doc \in DOMAIN db.docs THEN db.docs[doc] ELSE NewDocument
                  new == db'.docs[doc]
              IN  /\ new.title = e.title
                  /\ new.abstract = e.abstract
                  /\ new.pages = EntryPages(e)
                  /\ new.std_level = std_level_mapping[e.current_status]
                  /\ new.stream = stream_mapping[e.stream]
                  /\ HasNote(iout', doc, "changed title") <=> old.title # e.title
                  /\ HasNote(iout', doc, "changed abstract") <=> old.abstract # e.abstract
                  /\ HasNote(iout', doc, "changed pages") <=> old.pages # EntryPages(e)
                  /\ HasNote(iout', doc, "changed standardization level")
                        <=> old.std_level # std_level_mapping[e.current_status]
                  /\ HasNote(iout', doc, "changed stream")
                        <=> old.stream # stream_mapping[e.stream]]_vars

(***************************************************************************)
(* The synthesis of the publication day: RFC 20 is read from the index at  *)
(* times before, in and after the month the index gives.                   *)
(***************************************************************************)
\* The month and year of publication the index may give.
SynthMonths ==
    {[year |-> 2023, month |-> 12], [year |-> 2024, month |-> 1],
     [year |-> 2024, month |-> 2], [year |-> 2024, month |-> 3],
     [year |-> 2024, month |-> 6]}

\* The times of the call: midnight and later in the day, on days at the
\* start, in the middle and at the end of the months around.
SynthNows ==
    {[year |-> 2024, month |-> m, day |-> dd, tod |-> t] :
        m \in 1..4, dd \in {1, 2, 15, 29}, t \in {0, 1}}
    \cup {[year |-> 2023, month |-> 12, day |-> dd, tod |-> t] :
             dd \in {1, 31}, t \in {0, 1}}

\* The store has the draft and no RFC.
InitSynth ==
    /\ db = [docs |-> (dA :> DraftRow), alias |-> (dA :> dA), edges |-> <<>>]
    /\ InitStoreCommon
    /\ ParseIdle
    /\ InitNotify

RunSynth ==
    /\ runs < MaxRuns
    /\ WithinCaps(db)
    /\ \E date \in SynthMonths, now \in SynthNows :
          IndexCall(<<[Entry20(<<>>, <<>>) EXCEPT !.rfc_published_date = date]>>,
                    <<>>, NoSkipDate, now)
    /\ runs' = runs + 1
    /\ UNCHANGED <<qin, qout>>

NextSynth == RunSynth /\ UNCHANGED <<parseVars, notifyVars>>

SpecSynth == InitSynth /\ [][NextSynth]_vars

\* C20: the call that gives RFC 20 its published_rfc event returns, and the
\* time of the event lies in the month and year the index gives.  When the
\* time of the call is more than 60 days from day 1 of that month the time
\* is day 1; otherwise it is the nearest day of the month in the direction
\* of day 1 (the day of the call, the last day of the month or day 1), at
\* the time of day of the call, and the walk to it takes the number of days
\* between them, at most 60.
C20_SynthesisInMonth ==
    [][(/\ IndexReturned
        /\ aRfc20 \notin DOMAIN db.docs
        /\ aRfc20 \in DOMAIN db'.docs)
       => LET date == iin'.index_data[1].rfc_published_date
              now == iin'.now
              d == [year |-> date.year, month |-> date.month, day |-> 1, tod |-> 0]
              time == db'.docs[aRfc20].published[1]
              steps == Synthesize(date, now).steps
          IN  /\ Len(db'.docs[aRfc20].published) = 1
              /\ time.year = date.year /\ time.month = date.month
              /\ IF Abs(HalfDays(d, now)) > 2 * 60
                 THEN time = d /\ steps = 0
                 ELSE /\ time.tod = now.tod
                      /\ time.day =
                            (IF now.year = date.year /\ now.month = date.month
                             THEN now.day
                             ELSE IF HalfDays(d, now) < 0
                             THEN DaysInMonth(date.year, date.month)
                             ELSE 1)
                      /\ steps = Abs(Ordinal(time) - Ordinal(now))
                      /\ steps <= 60]_vars

\* C20 witness: RFC 20, published in February 2024, was read on the
\* afternoon of 15 March 2024; the walk went back 15 days, to 29 February.
C20_Witness ==
    /\ iin.called /\ ~iout.raised
    /\ iin.now = [year |-> 2024, month |-> 3, day |-> 15, tod |-> 1]
    /\ iin.index_data[1].rfc_published_date = [year |-> 2024, month |-> 2]
    /\ aRfc20 \in DOMAIN db.docs
    /\ db.docs[aRfc20].published = <<[year |-> 2024, month |-> 2, day |-> 29, tod |-> 1]>>
    /\ Synthesize(iin.index_data[1].rfc_published_date, iin.now).steps = 15

\* The step is a call of update_drafts_from_queue, returned or not.
QueueCalled == runs' = runs + 1 /\ qin'.called

\* C21: after a call, a document that has no entry in the list and had a
\* draft-rfceditor state has none, has neither ref nor iana, keeps its other
\* tags and its draft-iesg state, and has no new event and no new mail; a
\* document with an entry is not cleared: a skipped entry leaves its row as
\* it was, a processed one leaves it in the mapped state.
C21_LeftTheQueue ==
    [][QueueCalled =>
          \A d \in DOMAIN db.docs :
              LET old == db.docs[d]
                  new == db'.docs[d]
                  entries == {i \in 1..Len(qin'.drafts) :
                                 qin'.drafts[i].name \in AliasesOf(db, d)}
              IN  /\ (entries = {} /\ old.state["draft-rfceditor"] # NoState) =>
                        /\ new.state["draft-rfceditor"] = NoState
                        /\ new.tags = old.tags \ {"ref", "iana"}
                        /\ new.state["draft-iesg"] = old.state["draft-iesg"]
                        /\ new.received = old.received /\ new.mails = old.mails
                        /\ \A j \in 1..Len(qout'.events) : qout'.events[j].doc # d
                  /\ \A i \in entries :
                        IF Processed(db, qin'.drafts[i])
                        THEN new.state["draft-rfceditor"]
                                = state_mapping[qin'.drafts[i].state]
                        ELSE new = old]_vars

\* The state types of lines 475-486.
Downstream == {"draft-iesg", "draft-stream-iab", "draft-stream-irtf", "draft-stream-ise"}

\* C22: after a call read to its end, the document of every entry is in the
\* draft state rfc; each of its downstream states is absent, pub or
\* idexists, and draft-iesg is not absent; a state that was pub or idexists
\* is as it was, a state that was something else is pub, and a state type
\* other than draft-iesg that had no state has none.
C22_DownstreamStates ==
    [][IndexReturned =>
          \A i \in 1..Len(iin'.index_data) :
              LET doc == db'.alias[RfcName(iin'.index_data[i].rfc_number)]
                  old == IF doc \in DOMAIN db.docs THEN db.docs[doc].state
                         ELSE NewDocument.state
                  new == db'.docs[doc].state
              IN  /\ new["draft"] = "rfc"
                  /\ new["draft-iesg"] # NoState
                  /\ \A t \in Downstream :
                        /\ new[t] \in {NoState, "pub", "idexists"}
                        /\ old[t] \in {"pub", "idexists"} => new[t] = old[t]
                        /\ old[t] \notin {NoState, "pub", "idexists"} => new[t] = "pub"
                        /\ (t # "draft-iesg" /\ old[t] = NoState) => new[t] = NoState]_vars

\* C22 witness: the draft on the independent stream has become RFC 20: its
\* draft state is rfc, its draft-stream-ise state has gone from rfc-edit to
\* pub, its draft-iesg state is still idexists and the other stream state
\* types have no state.
C22_Witness ==
    /\ iin.called /\ ~iout.raised
    /\ aRfc20 \in DOMAIN db.alias /\ db.alias[aRfc20] = dA
    /\ db.docs[dA].state["draft"] = "rfc"
    /\ db.docs[dA].state["draft-stream-ise"] = "pub"
    /\ db.docs[dA].state["draft-iesg"] = "idexists"
    /\ db.docs[dA].state["draft-stream-iab"] = NoState
    /\ db.docs[dA].state["draft-stream-irtf"] = NoState

\* C23: a call of update_docs_from_rfc_index on one entry that an error
\* ends leaves the store as it was before the call: no document, alias,
\* state, tag, relation or event of that entry remains.
C23_AbortedEntryLeavesNothing ==
    [][(/\ runs' = runs + 1
        /\ iin'.called /\ iout'.raised
        /\ Len(iin'.index_data) = 1)
       => db' = db]_vars

\* C24: after a call read to its end, the document of an entry carries
\* verified-errata exactly when the entry has has_errata set, its errata
\* records are not all Rejected and one of them is Verified; and it does not
\* carry verified-errata without errata.
C24_VerifiedTagTracksErrata ==
    (iin.called /\ ~iout.raised) =>
        \A i \in 1..Len(iin.index_data) :
            LET e == iin.index_data[i]
            IN  /\ "verified-errata" \in TagsOfEntry(db, e)
                     <=> (/\ e.has_errata # 0
                          /\ ~AllRejected(iin.errata_data, e)
                          /\ HasVerified(iin.errata_data, e))
                /\ "verified-errata" \in TagsOfEntry(db, e)
                     => "errata" \in TagsOfEntry(db, e)

(***************************************************************************)
(* The specifications.                                                     *)
(***************************************************************************)
SpecIndex == InitIndex /\ [][NextIndex]_vars

Spec == SpecIndex

====
